---------------------------- MODULE Spec2Model ----------------------------
(***************************************************************************)
(* The k-drama recommender (src/core.py): a RecommenderModel is built once *)
(* from a CSV table by from_csv and then queried by recommend_by_name,     *)
(* recommend_by_genre, recommend_by_year and smart_recommend.              *)
(*                                                                         *)
(* Strings are sequences of one-character strings over a small alphabet:   *)
(* letters a-d and A-D, the ASCII digits 0 1 2 8 9, the digit "sup2" (the  *)
(* superscript two: str.isdigit() accepts it, int() rejects it), the       *)
(* blank, and the punctuation "," "." "$".  Positions and row labels are   *)
(* 0-based as in Python; a sequence element at Python position p is s[p+1].*)
(***************************************************************************)
EXTENDS Integers, Sequences, FiniteSets, TLC

(***************************************************************************)
(* Characters and the str methods the code calls.                          *)
(***************************************************************************)
Whitespace == {" "}
AsciiDigits == {"0", "1", "2", "8", "9"}
OtherDigits == {"sup2"}
Punctuation == {",", ".", "$"}

\* str.lower() on one character
LowerChar(c) ==
    CASE c = "A" -> "a"
      [] c = "B" -> "b"
      [] c = "C" -> "c"
      [] c = "D" -> "d"
      [] OTHER -> c

\* str.lower()
Lower(s) == [i \in 1..Len(s) |-> LowerChar(s[i])]

\* str.strip(): leading and trailing whitespace removed
Strip(s) ==
    LET keep == {i \in 1..Len(s) : s[i] \notin Whitespace}
    IN  IF keep = {} THEN <<>>
        ELSE LET lo == CHOOSE i \in keep : \A j \in keep : i <= j
                 hi == CHOOSE i \in keep : \A j \in keep : j <= i
             IN  SubSeq(s, lo, hi)

\* str.isdigit(): non-empty and every character a digit (Unicode digits included)
isdigit(s) == Len(s) > 0 /\ \A i \in 1..Len(s) : s[i] \in AsciiDigits \cup OtherDigits

DigitVal(c) ==
    CASE c = "0" -> 0
      [] c = "1" -> 1
      [] c = "2" -> 2
      [] c = "8" -> 8
      [] c = "9" -> 9

RECURSIVE DecimalValue(_)
DecimalValue(s) ==
    IF s = <<>> THEN 0
    ELSE 10 * DecimalValue(SubSeq(s, 1, Len(s) - 1)) + DigitVal(s[Len(s)])

\* int(x) of a string: surrounding whitespace is ignored, the rest must be
\* decimal digits (the alphabet has no sign and no underscore); otherwise
\* ValueError.
int_of_str(s) ==
    LET t == Strip(s)
    IN  IF Len(t) > 0 /\ \A i \in 1..Len(t) : t[i] \in AsciiDigits
        THEN [ok |-> TRUE, val |-> DecimalValue(t)]
        ELSE [ok |-> FALSE, val |-> 0]

\* Code point order of the alphabet, for Python's comparison of strings.
Ord(c) ==
    CASE c = " " -> 32
      [] c = "$" -> 36
      [] c = "," -> 44
      [] c = "." -> 46
      [] c = "0" -> 48
      [] c = "1" -> 49
      [] c = "2" -> 50
      [] c = "8" -> 56
      [] c = "9" -> 57
      [] c = "A" -> 65
      [] c = "B" -> 66
      [] c = "C" -> 67
      [] c = "D" -> 68
      [] c = "a" -> 97
      [] c = "b" -> 98
      [] c = "c" -> 99
      [] c = "d" -> 100
      [] c = "sup2" -> 178

\* s > t for Python strings (lexicographic by code point)
StrGreater(s, t) ==
    \E k \in 0..Len(t) :
        /\ k <= Len(s)
        /\ \A i \in 1..k : s[i] = t[i]
        /\ \/ k = Len(t) /\ Len(s) > k
           \/ k < Len(t) /\ k < Len(s) /\ Ord(s[k + 1]) > Ord(t[k + 1])

\* str.split(sep) for a one-character separator: the pieces between
\* separators, empty pieces kept.
RECURSIVE Split(_, _)
Split(s, sep) ==
    LET at == {i \in 1..Len(s) : s[i] = sep}
    IN  IF at = {} THEN <<s>>
        ELSE LET i == CHOOSE x \in at : \A y \in at : x <= y
             IN  <<SubSeq(s, 1, i - 1)>> \o Split(SubSeq(s, i + 1, Len(s)), sep)

\* str.split(): the maximal runs of non-whitespace characters
RECURSIVE SplitWords(_)
SplitWords(s) ==
    LET t == Strip(s)
        ws == {i \in 1..Len(t) : t[i] \in Whitespace}
    IN  IF t = <<>> THEN <<>>
        ELSE IF ws = {} THEN <<t>>
        ELSE LET i == CHOOSE x \in ws : \A y \in ws : x <= y
             IN  <<SubSeq(t, 1, i - 1)>> \o SplitWords(SubSeq(t, i + 1, Len(t)))

\* " ".join(words)
RECURSIVE JoinWords(_)
JoinWords(ws) ==
    IF ws = <<>> THEN <<>>
    ELSE IF Len(ws) = 1 THEN ws[1]
    ELSE ws[1] \o <<" ">> \o JoinWords(Tail(ws))

(***************************************************************************)
(* difflib.SequenceMatcher and get_close_matches, as recommend_by_name     *)
(* calls them (no junk; the "popular" heuristic needs 200 characters).     *)
(* a and b are strings, ranges are Python's half-open [lo, hi).            *)
(***************************************************************************)
\* length of the common run of a from i and b from j inside the ranges
RECURSIVE RunLen(_, _, _, _, _, _)
RunLen(a, b, i, ahi, j, bhi) ==
    IF i < ahi /\ j < bhi /\ a[i + 1] = b[j + 1]
    THEN 1 + RunLen(a, b, i + 1, ahi, j + 1, bhi)
    ELSE 0

\* the length of the matching run that starts at each pair of positions
BlockSizes(a, b, alo, ahi, blo, bhi) ==
    [p \in (alo..(ahi - 1)) \X (blo..(bhi - 1)) |-> RunLen(a, b, p[1], ahi, p[2], bhi)]

\* the block (i, j, k) of the run that starts at p
Block(p, size) == <<p[1], p[2], size[p]>>

\* of the runs of size, the longest, the earliest in a and then the
\* earliest in b among the longest; <<alo, blo, 0>> if nothing matches
FirstLongest(size, alo, blo) ==
    LET starts == DOMAIN size
        long(p) == \A q \in starts : size[q] <= size[p]
        first(p) == \A q \in starts :
                        long(q) => (p[1] < q[1] \/ (p[1] = q[1] /\ p[2] <= q[2]))
    IN  IF \A p \in starts : size[p] = 0 THEN <<alo, blo, 0>>
        ELSE Block(CHOOSE p \in starts : long(p) /\ first(p), size)

\* find_longest_match
find_longest_match(a, b, alo, ahi, blo, bhi) ==
    FirstLongest(BlockSizes(a, b, alo, ahi, blo, bhi), alo, blo)

\* the total size of get_matching_blocks: the longest block m, then the
\* same to its left and to its right
RECURSIVE MatchingSize(_, _, _, _, _, _)
BlocksAround(a, b, alo, ahi, blo, bhi, m) ==
    IF m[3] = 0 THEN 0
    ELSE m[3]
         + (IF alo < m[1] /\ blo < m[2]
            THEN MatchingSize(a, b, alo, m[1], blo, m[2]) ELSE 0)
         + (IF m[1] + m[3] < ahi /\ m[2] + m[3] < bhi
            THEN MatchingSize(a, b, m[1] + m[3], ahi, m[2] + m[3], bhi) ELSE 0)

MatchingSize(a, b, alo, ahi, blo, bhi) ==
    BlocksAround(a, b, alo, ahi, blo, bhi, find_longest_match(a, b, alo, ahi, blo, bhi))

\* A ratio 2.0 * matches / length is kept as the fraction <<num, den>>, and
\* as 1/1 for the ratio 1.0 of two empty strings.
CalculateRatio(matches, length) ==
    IF length > 0 THEN <<2 * matches, length>> ELSE <<1, 1>>

ratio(a, b) == CalculateRatio(MatchingSize(a, b, 0, Len(a), 0, Len(b)), Len(a) + Len(b))

\* quick_ratio: the characters in common, counted with multiplicity
quick_ratio(a, b) ==
    LET chars == {b[i] : i \in 1..Len(b)}
        cnt(s, c) == Cardinality({i \in 1..Len(s) : s[i] = c})
        min(x, y) == IF x <= y THEN x ELSE y
        RECURSIVE Sum(_)
        Sum(S) == IF S = {} THEN 0
                  ELSE LET c == CHOOSE x \in S : TRUE
                       IN  min(cnt(a, c), cnt(b, c)) + Sum(S \ {c})
    IN  CalculateRatio(Sum(chars), Len(a) + Len(b))

real_quick_ratio(a, b) ==
    CalculateRatio(IF Len(a) <= Len(b) THEN Len(a) ELSE Len(b), Len(a) + Len(b))

\* cutoff=0.6 of the get_close_matches call, in tenths
CutoffTenths == 6

\* r >= cutoff
ClearsCutoff(r) == 10 * r[1] >= CutoffTenths * r[2]

\* r1 > r2 for two ratios
RatioGreater(r1, r2) == r1[1] * r2[2] > r2[1] * r1[2]

\* heapq.nlargest(1, result): of the candidates good, the one with the
\* largest (score, x) pair; <<>> when there is none
Largest(possibilities, good, score) ==
    LET larger(i, j) == \/ RatioGreater(score[i], score[j])
                        \/ /\ ~RatioGreater(score[j], score[i])
                           /\ StrGreater(possibilities[i], possibilities[j])
    IN  IF good = {} THEN <<>>
        ELSE <<possibilities[CHOOSE i \in good : \A j \in good : ~larger(j, i)]>>

\* the candidates whose three ratios clear the cutoff (score is ratio())
CloseEnough(word, possibilities, score) ==
    {i \in 1..Len(possibilities) :
        /\ ClearsCutoff(real_quick_ratio(possibilities[i], word))
        /\ ClearsCutoff(quick_ratio(possibilities[i], word))
        /\ ClearsCutoff(score[i])}

BestMatch(word, possibilities, score) ==
    Largest(possibilities, CloseEnough(word, possibilities, score), score)

\* get_close_matches(word, possibilities, n=1, cutoff=0.6): the candidates
\* whose three ratios clear the cutoff, and of them the best
get_close_matches(word, possibilities) ==
    BestMatch(word, possibilities,
              [i \in 1..Len(possibilities) |-> ratio(possibilities[i], word)])

(***************************************************************************)
(* The text of an item and its feature vector.                             *)
(***************************************************************************)
\* ENGLISH_STOP_WORDS, restricted to the words the alphabet can spell
StopWords == {<<"a">>}

\* _clean_text: lowercase, drop bracketed fragments (the alphabet has no
\* bracket), delete punctuation, drop the words holding a digit, drop the
\* stop words, join with single blanks.
clean_text(text) ==
    LET lowered == Lower(text)
        nopunct == SelectSeq(lowered, LAMBDA c : c \notin Punctuation)
        nodigit(w) == \A i \in 1..Len(w) : w[i] \notin AsciiDigits
        tokens == SelectSeq(SplitWords(nopunct),
                            LAMBDA w : nodigit(w) /\ w \notin StopWords)
    IN  JoinWords(tokens)

\* data["Synopsis"] + " " + data["Genre"] + " " + data["Cast"], cleaned
combined_features(row) ==
    clean_text(row.Synopsis \o <<" ">> \o row.Genre \o <<" ">> \o row.Cast)

\* The analyzer of TfidfVectorizer(stop_words="english"): the tokens of two
\* or more word characters that are no stop words.
Terms(doc) ==
    SelectSeq(SplitWords(Lower(doc)), LAMBDA w : Len(w) >= 2 /\ w \notin StopWords)

RECURSIVE SumOver(_, _)
SumOver(S, f) ==
    IF S = {} THEN 0
    ELSE LET x == CHOOSE y \in S : TRUE IN f[x] + SumOver(S \ {x}, f)

\* tfidf.fit_transform(docs): one vector per document over the vocabulary
\* of all of them.  The inverse document frequency is left out: the weight
\* of a term is its count, which keeps what the recommenders read of the
\* matrix (equal texts have equal vectors, an empty text has the zero
\* vector, the diagonal of the similarity is 1 otherwise).
fit_transform(docs) ==
    LET terms == [i \in 1..Len(docs) |-> Terms(docs[i])]
        vocabulary == UNION {{terms[i][j] : j \in 1..Len(terms[i])} : i \in 1..Len(docs)}
    IN  [i \in 1..Len(docs) |->
            [t \in vocabulary |-> Cardinality({j \in 1..Len(terms[i]) : terms[i][j] = t})]]

\* the vocabulary of a fitted matrix (every row has the same domain)
Vocabulary(matrix) == IF Len(matrix) = 0 THEN {} ELSE DOMAIN matrix[1]

\* cosine_similarity(tfidf_matrix): entry (i, j) is dot(i, j) / (|i| |j|),
\* and 0 when either vector is zero.  The entry is kept as the fraction
\* <<num, den>> of its square, which orders the entries as they are ordered.
cosine_similarity(matrix) ==
    LET V == Vocabulary(matrix)
        n == Len(matrix)
        dot == [i \in 1..n |-> [j \in 1..n |->
                   SumOver(V, [t \in V |-> matrix[i][t] * matrix[j][t]])]]
    IN  [i \in 1..n |->
            [j \in 1..n |->
                IF dot[i][i] * dot[j][j] = 0 THEN <<0, 1>>
                ELSE IF i = j THEN <<1, 1>>
                ELSE <<dot[i][j] * dot[i][j], dot[i][i] * dot[j][j]>>]]

\* x > y for two entries of the similarity matrix
SimGreater(x, y) == x[1] * y[2] > y[1] * x[2]

(***************************************************************************)
(* from_csv                                                                *)
(***************************************************************************)
REQUIRED_COLUMNS == {"Name", "Synopsis", "Cast", "Year of release", "Genre", "Rating"}

\* data[REQUIRED_COLUMNS].dropna(): the rows with no missing value, each
\* keeping the label (its 0-based position in the file) it was read with
dropna(csv) ==
    LET kept == SelectSeq([i \in 1..Len(csv) |-> i],
                          LAMBDA i : csv[i].na \cap REQUIRED_COLUMNS = {})
    IN  [p \in 1..Len(kept) |->
            [index    |-> kept[p] - 1,
             Name     |-> csv[kept[p]].Name,
             Synopsis |-> csv[kept[p]].Synopsis,
             Cast     |-> csv[kept[p]].Cast,
             Year     |-> csv[kept[p]].Year,
             Genre    |-> csv[kept[p]].Genre,
             Rating   |-> csv[kept[p]].Rating]]

\* Series.drop_duplicates(): the entries whose VALUE occurred before are
\* dropped, the first occurrence of each value is kept
drop_duplicates(series) ==
    LET first(i) == \A j \in 1..(i - 1) : series[j].value # series[i].value
        keep == SelectSeq([i \in 1..Len(series) |-> i], first)
    IN  [p \in 1..Len(keep) |-> series[keep[p]]]

\* pd.Series(data.index, index=data["Name"]).drop_duplicates()
build_name_to_index(d) ==
    drop_duplicates([p \in 1..Len(d) |-> [name |-> d[p].Name, value |-> d[p].index]])

\* the feature texts the vectorizer is fitted on
FeatureDocs(d) == [p \in 1..Len(d) |-> combined_features(d[p])]

\* fit_transform raises ValueError("empty vocabulary") when no document
\* has a term, in particular when no row is left: from_csv then raises
\* and there is no model.
Builds(csv) == Vocabulary(fit_transform(FeatureDocs(dropna(csv)))) # {}

from_csv(csv) ==
    LET d == dropna(csv)
    IN  [data          |-> d,
         similarity    |-> cosine_similarity(fit_transform(FeatureDocs(d))),
         name_to_index |-> build_name_to_index(d)]

(***************************************************************************)
(* The state: the three fields of the RecommenderModel, and the call in    *)
(* progress with what it returned.                                         *)
(***************************************************************************)
VARIABLES
    data,           \* RecommenderModel.data
    similarity,     \* RecommenderModel.similarity
    name_to_index,  \* RecommenderModel.name_to_index
    pc,             \* "idle", or "returned" once a call has come back
    call,           \* the operation called and its arguments
    outcome,        \* the rows it returned or the exception it raised
    mode,           \* the branch smart_recommend took ("none": no branch)
    invoked,        \* the recommenders smart_recommend delegated to
    served          \* history: an earlier call has already come back

vars == <<data, similarity, name_to_index, pc, call, outcome, mode, invoked, served>>

\* A returned DataFrame is the sequence of the 0-based positions (iloc) of
\* its rows in data, with the "Matched title" column when there is one.
Returned(rows, matched) ==
    [kind |-> "ok", rows |-> rows, matched |-> matched, msg |-> "", year |-> -1]

Raised(kind, msg, year) ==
    [kind |-> kind, rows |-> <<>>, matched |-> <<>>, msg |-> msg, year |-> year]

\* Arguments: a string, an integer, or None.
StrArg(s) == [none |-> FALSE, isInt |-> FALSE, val |-> 0, text |-> s]
IntArg(n) == [none |-> FALSE, isInt |-> TRUE, val |-> n, text |-> <<>>]
NoneArg == [none |-> TRUE, isInt |-> FALSE, val |-> 0, text |-> <<>>]

\* "not x" for a string argument or None
Falsy(x) == x.none \/ (~x.isInt /\ x.text = <<>>)

\* The positions 0..n-1 sorted so that the greater comes first and equal
\* ones keep their order (sorted(..., reverse=True) is stable);
\* greater[<<i, j>>] tells whether the key at i is greater than the key at j.
SortedDesc(n, greater) ==
    LET before(q, p) == greater[<<q, p>>] \/ (~greater[<<p, q>>] /\ q < p)
        rank(p) == Cardinality({q \in 0..(n - 1) : before(q, p)})
    IN  [r \in 1..n |-> CHOOSE p \in 0..(n - 1) : rank(p) = r - 1]

\* the positions 0..n-1, paired
Pairs(n) == (0..(n - 1)) \X (0..(n - 1))

\* s[lo:hi] for 0 <= lo and 0 <= hi
Slice(s, lo, hi) == SubSeq(s, lo + 1, IF hi <= Len(s) THEN hi ELSE Len(s))

\* self.name_to_index[matched_name]: every value stored under the name
Lookup(name) ==
    LET hits == SelectSeq([i \in 1..Len(name_to_index) |-> i],
                          LAMBDA i : name_to_index[i].name = name)
    IN  [p \in 1..Len(hits) |-> name_to_index[hits[p]].value]

\* the position of the first row whose lowercased Name is the match
MatchedPosition(lowered) ==
    CHOOSE p \in 0..(Len(data) - 1) :
        /\ Lower(data[p + 1].Name) = lowered
        /\ \A q \in 0..(p - 1) : Lower(data[q + 1].Name) # lowered

\* scores[1: top_k + 1] of the row idx of the matrix, sorted by score
\* descending
TopScores(idx, top_k) ==
    Slice(SortedDesc(Len(similarity[idx + 1]),
                     [ij \in Pairs(Len(similarity[idx + 1])) |->
                         SimGreater(similarity[idx + 1][ij[1] + 1],
                                    similarity[idx + 1][ij[2] + 1])]),
          1, top_k + 1)

\* lines 96-107: idx = int(self.name_to_index[matched_name]), whose values
\* are found; then the scores of row idx and the rows returned
RecommendFound(found, matched_name, top_k) ==
    IF Len(found) # 1
    THEN \* int() of a Series of several values
         Raised("TypeError", "cannot convert the series", -1)
    ELSE IF found[1] >= Len(similarity)
    THEN Raised("IndexError", "index out of bounds", -1)
    ELSE Returned(TopScores(found[1], top_k), matched_name)

RecommendTitle(matched_name, top_k) ==
    RecommendFound(Lookup(matched_name), matched_name, top_k)

\* lines 92-95: no match is a KeyError; otherwise the matched name is the
\* Name of the first row whose lowercased Name is the match
RecommendMatches(matches, top_k) ==
    IF matches = <<>>
    THEN Raised("KeyError", "K-drama not found. Please check spelling.", -1)
    ELSE RecommendTitle(data[MatchedPosition(matches[1]) + 1].Name, top_k)

recommend_by_name(name, top_k) ==
    IF Falsy(name) \/ Strip(name.text) = <<>>
    THEN Raised("ValueError", "Name must be non-empty.", -1)
    ELSE RecommendMatches(
             get_close_matches(Lower(Strip(name.text)),
                               [p \in 1..Len(data) |-> Lower(data[p].Name)]),
             top_k)

\* re.search(pat, s) for a pattern over the alphabet: "." is any character,
\* "$" is the end of the string, every other character is itself.
RECURSIVE MatchFrom(_, _, _, _)
MatchFrom(pat, k, s, i) ==
    IF k > Len(pat) THEN TRUE
    ELSE IF pat[k] = "$" THEN i = Len(s) + 1 /\ MatchFrom(pat, k + 1, s, i)
    ELSE IF pat[k] = "." THEN i <= Len(s) /\ MatchFrom(pat, k + 1, s, i + 1)
    ELSE i <= Len(s) /\ s[i] = pat[k] /\ MatchFrom(pat, k + 1, s, i + 1)

\* Series.str.contains(pat): regex=True is the default
str_contains(s, pat) == \E i \in 1..(Len(s) + 1) : MatchFrom(pat, 1, s, i)

\* filtered.sort_values(by="Rating", ascending=False).head(top_k), for the
\* rows at the positions sel (in catalog order).  Equal ratings keep the
\* catalog order: the sort pandas runs is deterministic, and stable on
\* frames this small.
TopRated(sel, top_k) ==
    LET order == SortedDesc(Len(sel),
                     [ij \in Pairs(Len(sel)) |->
                         data[sel[ij[1] + 1] + 1].Rating > data[sel[ij[2] + 1] + 1].Rating])
    IN  Slice([r \in 1..Len(sel) |-> sel[order[r] + 1]], 0, top_k)

\* self.data[mask]: the positions of the rows of data whose mask is set
Filter(mask) ==
    SelectSeq([p \in 1..Len(data) |-> p - 1], LAMBDA p : mask[p + 1])

recommend_by_genre(genre, top_k) ==
    IF Falsy(genre) \/ Strip(genre.text) = <<>>
    THEN Raised("ValueError", "Genre must be non-empty.", -1)
    ELSE LET g == Lower(Strip(genre.text))
             filtered == Filter([p \in 1..Len(data) |-> str_contains(Lower(data[p].Genre), g)])
         IN  IF filtered = <<>>
             THEN Raised("KeyError", "No K-dramas found for this genre.", -1)
             ELSE Returned(TopRated(filtered, top_k), <<>>)

\* int(year): an integer is itself, a string is parsed, None is a TypeError
\* (the code turns every failure into ValueError)
int_of(year) ==
    IF year.none THEN [ok |-> FALSE, val |-> 0]
    ELSE IF year.isInt THEN [ok |-> TRUE, val |-> year.val]
    ELSE int_of_str(year.text)

\* recommend_by_year without the check of an empty selection
recommend_by_year_NoEmptyCheck(year, top_k) ==
    IF ~int_of(year).ok
    THEN Raised("ValueError", "Year must be an integer (e.g., 2021).", -1)
    ELSE Returned(TopRated(Filter([p \in 1..Len(data) |-> data[p].Year = int_of(year).val]),
                           top_k), <<>>)

recommend_by_year(year, top_k) ==
    IF ~int_of(year).ok
    THEN Raised("ValueError", "Year must be an integer (e.g., 2021).", -1)
    ELSE LET year_int == int_of(year).val
             filtered == Filter([p \in 1..Len(data) |-> data[p].Year = year_int])
         IN  IF filtered = <<>>
             THEN Raised("KeyError", "No K-dramas found for year", year_int)
             ELSE Returned(TopRated(filtered, top_k), <<>>)

\* the query without the strip
TrimQuery_NoStrip(query) == IF Falsy(query) THEN <<>> ELSE query.text

\* q = (query or "").strip()
TrimQuery(query) == IF Falsy(query) THEN <<>> ELSE Strip(query.text)

\* the year test without the length
IsYearQuery_AnyLength(q) == isdigit(q)

\* q.isdigit() and len(q) == 4
IsYearQuery(q) == isdigit(q) /\ Len(q) = 4

\* g.strip().lower() for every piece g
StrippedLower(pieces) == {Lower(Strip(pieces[t])) : t \in 1..Len(pieces)}

\* the genre tokens of the catalog: every Genre split on commas, each piece
\* stripped and lowercased
GenreTokens == UNION {StrippedLower(Split(data[p].Genre, ",")) : p \in 1..Len(data)}

\* smart_recommend: the branch taken, the recommender delegated to, and
\* what comes back (the pair (mode, results), or the exception)
smart_recommend(query, top_k) ==
    LET q == TrimQuery(query)
    IN  IF q = <<>>
        THEN [mode |-> "none", invoked |-> {},
              out |-> Raised("ValueError", "Query must be non-empty.", -1)]
        ELSE IF IsYearQuery(q)
        THEN IF int_of_str(q).ok
             THEN [mode |-> "year", invoked |-> {"recommend_by_year"},
                   out |-> recommend_by_year(IntArg(int_of_str(q).val), top_k)]
             ELSE \* int(q) raises before recommend_by_year is entered
                  [mode |-> "year", invoked |-> {},
                   out |-> Raised("ValueError", "invalid literal for int()", -1)]
        ELSE IF Lower(q) \in GenreTokens
        THEN [mode |-> "genre", invoked |-> {"recommend_by_genre"},
              out |-> recommend_by_genre(StrArg(q), top_k)]
        ELSE [mode |-> "title", invoked |-> {"recommend_by_name"},
              out |-> recommend_by_name(StrArg(q), top_k)]

(***************************************************************************)
(* The inputs: the files a model is built from and the arguments of the    *)
(* calls.                                                                  *)
(***************************************************************************)
MaxRows == 3
MaxTopK == 2

Row(name, synopsis, cast, year, genre, rating, na) ==
    [Name |-> name, Synopsis |-> synopsis, Cast |-> cast, Year |-> year,
     Genre |-> genre, Rating |-> rating, na |-> na]

\* "Abc": synopsis "bc cd", cast "ab", genre "Ab, cd"
RowAbc ==
    Row(<<"A", "b", "c">>, <<"b", "c", " ", "c", "d">>, <<"a", "b">>, 2021,
        <<"A", "b", ",", " ", "c", "d">>, 89, {})
\* "abd": synopsis "bc cd ab", cast "ab", genre "cd$": the same words as
\* "Abc" has, so the same feature vector
RowAbd ==
    Row(<<"a", "b", "d">>, <<"b", "c", " ", "c", "d", " ", "a", "b">>, <<"a", "b">>, 2020,
        <<"c", "d", "$">>, 75, {})
\* "2021": genre "2021", and texts that clean to nothing (a zero vector)
Row2021 ==
    Row(<<"2", "0", "2", "1">>, <<"a">>, <<"a">>, 2020,
        <<"2", "0", "2", "1">>, 90, {})
\* "Bcd": a row with no rating, which dropna removes
RowNoRating ==
    Row(<<"B", "c", "d">>, <<"a", "b">>, <<"c", "d">>, 2021,
        <<"a", "b">>, 0, {"Rating"})

\* A file may hold a row twice: two items of the same name.
RowPool == {RowAbc, RowAbd, Row2021, RowNoRating}

\* the files of one to MaxRows rows
Files == UNION {[1..n -> RowPool] : n \in 1..MaxRows}

TopKs == 0..MaxTopK

NameArgs ==
    {StrArg(<<"a", "b", "c">>), StrArg(<<" ", "A", "b", "d", " ">>), StrArg(<<"a", "b">>),
     StrArg(<<"d", "d">>), StrArg(<<>>), StrArg(<<"2", "0", "2", "1">>)}

GenreArgs ==
    {StrArg(<<"a", "b">>), StrArg(<<"C", "d">>), StrArg(<<".">>),
     StrArg(<<"c", "d", "$">>), StrArg(<<" ">>)}

YearArgs ==
    {IntArg(2021), StrArg(<<"1", "8", "9", "9">>), StrArg(<<" ", "2", "0", "2", "0", " ">>),
     StrArg(<<"a", "b">>)}

QueryArgs ==
    {NoneArg, StrArg(<<" ">>),
     StrArg(<<"2", "0", "2", "1">>), StrArg(<<"2", "0", "2", "0">>),
     StrArg(<<"1", "8", "9", "9">>), StrArg(<<"2", "0", "2">>),
     StrArg(<<"2", "0", "2", "1", "1">>), StrArg(<<"sup2", "sup2", "sup2", "sup2">>),
     StrArg(<<"c", "d", "$">>), StrArg(<<" ", "A", "b", " ">>),
     StrArg(<<"a", "b", "d">>), StrArg(<<"d", "d">>)}

NoCall == [op |-> "none", arg |-> NoneArg, top_k |-> 0]
NoOutcome == Raised("none", "", -1)

(***************************************************************************)
(* The state machine.                                                      *)
(***************************************************************************)
\* from_csv has built a model from some file; no call has been made
Init ==
    /\ \E csv \in Files :
        /\ Builds(csv)
        /\ \E model \in {from_csv(csv)} :
            /\ data = model.data
            /\ similarity = model.similarity
            /\ name_to_index = model.name_to_index
    /\ pc = "idle"
    /\ call = NoCall
    /\ outcome = NoOutcome
    /\ mode = "none"
    /\ invoked = {}
    /\ served = FALSE

RecommendByName ==
    /\ pc = "idle"
    /\ \E name \in NameArgs, top_k \in TopKs :
        /\ call' = [op |-> "recommend_by_name", arg |-> name, top_k |-> top_k]
        /\ outcome' = recommend_by_name(name, top_k)
    /\ mode' = "none"
    /\ invoked' = {}
    /\ pc' = "returned"
    /\ UNCHANGED <<data, similarity, name_to_index, served>>

\* recommend_by_genre sorting the catalog itself by rating (in place)
\* before it filters
RecommendByGenre_InPlace ==
    /\ pc = "idle"
    /\ \E genre \in GenreArgs, top_k \in TopKs :
        /\ call' = [op |-> "recommend_by_genre", arg |-> genre, top_k |-> top_k]
        /\ outcome' = recommend_by_genre(genre, top_k)
    /\ data' = [r \in 1..Len(data) |->
                   data[SortedDesc(Len(data),
                            [ij \in Pairs(Len(data)) |->
                                data[ij[1] + 1].Rating > data[ij[2] + 1].Rating])[r] + 1]]
    /\ mode' = "none"
    /\ invoked' = {}
    /\ pc' = "returned"
    /\ UNCHANGED <<similarity, name_to_index, served>>

RecommendByGenre ==
    /\ pc = "idle"
    /\ \E genre \in GenreArgs, top_k \in TopKs :
        /\ call' = [op |-> "recommend_by_genre", arg |-> genre, top_k |-> top_k]
        /\ outcome' = recommend_by_genre(genre, top_k)
    /\ mode' = "none"
    /\ invoked' = {}
    /\ pc' = "returned"
    /\ UNCHANGED <<data, similarity, name_to_index, served>>

RecommendByYear ==
    /\ pc = "idle"
    /\ \E year \in YearArgs, top_k \in TopKs :
        /\ call' = [op |-> "recommend_by_year", arg |-> year, top_k |-> top_k]
        /\ outcome' = recommend_by_year(year, top_k)
    /\ mode' = "none"
    /\ invoked' = {}
    /\ pc' = "returned"
    /\ UNCHANGED <<data, similarity, name_to_index, served>>

SmartRecommend ==
    /\ pc = "idle"
    /\ \E query \in QueryArgs, top_k \in TopKs :
        \E ret \in {smart_recommend(query, top_k)} :
            /\ call' = [op |-> "smart_recommend", arg |-> query, top_k |-> top_k]
            /\ outcome' = ret.out
            /\ mode' = ret.mode
            /\ invoked' = ret.invoked
    /\ pc' = "returned"
    /\ UNCHANGED <<data, similarity, name_to_index, served>>

\* the caller has taken the result (or the exception); the model is ready
\* for the next call
Return ==
    /\ pc = "returned"
    /\ pc' = "idle"
    /\ call' = NoCall
    /\ outcome' = NoOutcome
    /\ mode' = "none"
    /\ invoked' = {}
    /\ served' = TRUE
    /\ UNCHANGED <<data, similarity, name_to_index>>

Next ==
    \/ RecommendByName
    \/ RecommendByGenre
    \/ RecommendByYear
    \/ SmartRecommend
    \/ Return

Spec == Init /\ [][Next]_vars

(***************************************************************************)
(* The claims.                                                             *)
(***************************************************************************)
\* a call of op has come back
Done(op) == pc = "returned" /\ call.op = op

\* 0-based position of the first row of data named name
FirstNamed(name) ==
    CHOOSE p \in 0..(Len(data) - 1) :
        /\ data[p + 1].Name = name
        /\ \A q \in 0..(p - 1) : data[q + 1].Name # name

\* the positions a returned frame holds
RowSet(out) == {out.rows[r] : r \in 1..Len(out.rows)}

\* t occurs in s as a substring
IsSubstring(t, s) == \E i \in 0..(Len(s) - Len(t)) : SubSeq(s, i + 1, i + Len(t)) = t

\* C1: whenever recommend_by_name returns a result, the row the query was
\* matched to (the first row bearing the matched title) is not among the
\* returned rows.
C1_MatchedItemExcluded ==
    (Done("recommend_by_name") /\ outcome.kind = "ok")
        => FirstNamed(outcome.matched) \notin RowSet(outcome)

\* the rows of a returned frame are in rating order, highest first
RatingDescending(out) ==
    \A r \in 1..(Len(out.rows) - 1) :
        data[out.rows[r] + 1].Rating >= data[out.rows[r + 1] + 1].Rating

\* C2: whenever recommend_by_genre or recommend_by_year returns a result,
\* adjacent rows are in descending rating order and every returned row
\* satisfies the filter: its lowercased genre field contains the trimmed,
\* lowercased token as a substring / its year is the queried year.
C2_SortedAndFiltered ==
    /\ (Done("recommend_by_genre") /\ outcome.kind = "ok")
           => /\ RatingDescending(outcome)
              /\ \A p \in RowSet(outcome) :
                     IsSubstring(Lower(Strip(call.arg.text)), Lower(data[p + 1].Genre))
    /\ (Done("recommend_by_year") /\ outcome.kind = "ok")
           => /\ RatingDescending(outcome)
              /\ \A p \in RowSet(outcome) : data[p + 1].Year = int_of(call.arg).val

\* the query consists of exactly four digit characters
FourDigits(q) == Len(q) = 4 /\ \A i \in 1..4 : q[i] \in AsciiDigits \cup OtherDigits

\* q, lowercased, is one of the comma-separated pieces of some row's genre
\* field, trimmed and lowercased
IsGenreToken(q) ==
    \E p \in 1..Len(data) :
        \E i \in 1..(Len(data[p].Genre) + 1), j \in 0..Len(data[p].Genre) :
            /\ i <= j + 1
            /\ i = 1 \/ data[p].Genre[i - 1] = ","
            /\ j = Len(data[p].Genre) \/ data[p].Genre[j + 1] = ","
            /\ \A k \in i..j : data[p].Genre[k] # ","
            /\ Lower(Strip(SubSeq(data[p].Genre, i, j))) = Lower(q)

\* the mode the priority rule gives a trimmed, non-empty query
RuleMode(q) ==
    IF FourDigits(q) THEN "year" ELSE IF IsGenreToken(q) THEN "genre" ELSE "title"

\* the query of the call, trimmed ("" when absent)
Trimmed == IF call.arg.none THEN <<>> ELSE Strip(call.arg.text)

\* C3: for a query that is non-empty once trimmed, smart_recommend takes the
\* mode of the priority rule: year iff exactly four digit characters, else
\* genre iff the lowercased query is a genre token of the catalog, else title.
C3_ModePriority ==
    (Done("smart_recommend") /\ Trimmed # <<>>) => mode = RuleMode(Trimmed)

\* C3 witness: a four-digit query that is also a genre token and a title of
\* the catalog went to the year branch.
C3_Witness ==
    /\ Done("smart_recommend")
    /\ FourDigits(Trimmed)
    /\ IsGenreToken(Trimmed)
    /\ \E p \in 1..Len(data) : data[p].Name = Trimmed
    /\ mode = "year"

\* recommend_by_year has run: called directly with an argument int()
\* accepts, or reached from smart_recommend
YearCallMade ==
    \/ Done("recommend_by_year") /\ int_of(call.arg).ok
    \/ Done("smart_recommend") /\ invoked = {"recommend_by_year"}

\* the year it was asked for
QueriedYear ==
    IF call.op = "recommend_by_year" THEN int_of(call.arg).val ELSE int_of_str(Trimmed).val

\* C4: when no item of the catalog has the queried year, recommend_by_year,
\* called directly or through smart_recommend, fails with the not-found
\* error carrying that year and returns no rows.
C4_YearNotFound ==
    (YearCallMade /\ \A p \in 1..Len(data) : data[p].Year # QueriedYear)
        => /\ outcome.kind = "KeyError"
           /\ outcome.msg = "No K-dramas found for year"
           /\ outcome.year = QueriedYear
           /\ outcome.rows = <<>>

\* C4 witness: smart_recommend("1899") on a catalog with nothing from 1899
\* has raised the not-found error for 1899.
C4_Witness ==
    /\ Done("smart_recommend")
    /\ Trimmed = <<"1", "8", "9", "9">>
    /\ YearCallMade
    /\ \A p \in 1..Len(data) : data[p].Year # 1899
    /\ outcome.kind = "KeyError"
    /\ outcome.year = 1899

\* the query is absent, empty or whitespace only
BlankQuery ==
    call.arg.none \/ \A i \in 1..Len(call.arg.text) : call.arg.text[i] \in Whitespace

\* C5: smart_recommend with an absent, empty or whitespace-only query fails
\* with the invalid-input error before any classification: no mode, and no
\* recommender invoked.
C5_BlankQueryRejected ==
    (Done("smart_recommend") /\ BlankQuery)
        => /\ outcome.kind = "ValueError"
           /\ outcome.msg = "Query must be non-empty."
           /\ mode = "none"
           /\ invoked = {}

\* C5 witness: a whitespace-only query has been rejected.
C5_Witness ==
    /\ Done("smart_recommend")
    /\ ~call.arg.none
    /\ call.arg.text # <<>>
    /\ BlankQuery
    /\ outcome.kind = "ValueError"

\* what the call that has just come back yields when made once more
Again ==
    CASE call.op = "recommend_by_name" ->
             [out |-> recommend_by_name(call.arg, call.top_k), mode |-> "none", invoked |-> {}]
      [] call.op = "recommend_by_genre" ->
             [out |-> recommend_by_genre(call.arg, call.top_k), mode |-> "none", invoked |-> {}]
      [] call.op = "recommend_by_year" ->
             [out |-> recommend_by_year(call.arg, call.top_k), mode |-> "none", invoked |-> {}]
      [] call.op = "smart_recommend" -> smart_recommend(call.arg, call.top_k)

\* C6: no recommend operation, successful or failing, changes the catalog,
\* the similarity matrix or the name index, and whatever calls were made
\* before, the call that has come back yields the same outcome (the same
\* ordered rows, or the same error) when repeated with the same arguments.
C6_ReadOnlyAndRepeatable ==
    /\ [][UNCHANGED <<data, similarity, name_to_index>>]_vars
    /\ [](pc = "returned" => Again = [out |-> outcome, mode |-> mode, invoked |-> invoked])

\* C6 witness: after an earlier call, recommend_by_genre has returned rows
\* in an order that is not the catalog's.
C6_Witness ==
    /\ served
    /\ Done("recommend_by_genre")
    /\ outcome.kind = "ok"
    /\ Len(outcome.rows) >= 2
    /\ outcome.rows[1] > outcome.rows[2]

\* the rows whose lowercased name has a ratio of at least 0.6 against the
\* trimmed, lowercased name asked for
Clearing ==
    {p \in 1..Len(data) :
        ClearsCutoff(ratio(Lower(data[p].Name), Lower(Strip(call.arg.text))))}

\* the matched title is a best-scoring candidate
BestMatched(clearing) ==
    \E b \in clearing :
        /\ Lower(data[b].Name) = Lower(outcome.matched)
        /\ \A p \in clearing :
               ~RatioGreater(ratio(Lower(data[p].Name), Lower(Strip(call.arg.text))),
                             ratio(Lower(data[b].Name), Lower(Strip(call.arg.text))))

\* C7: for a non-empty name, recommend_by_name fails with the not-found
\* error iff no lowercased catalog name has a ratio of at least 0.6 against
\* the trimmed, lowercased query; when one has, a result is returned whose
\* matched title is the best-scoring candidate.
C7_NotFoundIffBelowCutoff ==
    (Done("recommend_by_name") /\ Strip(call.arg.text) # <<>>)
        => /\ outcome.kind = "KeyError" <=> Clearing = {}
           /\ Clearing # {} => (outcome.kind = "ok" /\ BestMatched(Clearing))

\* C8: the name index maps every name of the catalog to exactly one value,
\* the row position of the first kept row with that name.
C8_NameIndexFirstPosition ==
    \A p \in 1..Len(data) :
        /\ Len(Lookup(data[p].Name)) = 1
        /\ Lookup(data[p].Name)[1] = FirstNamed(data[p].Name)

\* the items other than m, ranked by their similarity to m, descending,
\* ties in catalog order
RankedOthers(m) ==
    SelectSeq(SortedDesc(Len(data),
                  [ij \in Pairs(Len(data)) |->
                      SimGreater(similarity[m + 1][ij[1] + 1], similarity[m + 1][ij[2] + 1])]),
              LAMBDA p : p # m)

\* C9: the list recommend_by_name returns is the first top_k entries of the
\* ranking of all items other than the matched one by similarity to it; it
\* has min(top_k, N - 1) rows.
C9_TopKOfOthers ==
    (Done("recommend_by_name") /\ outcome.kind = "ok")
        => /\ outcome.rows = Slice(RankedOthers(FirstNamed(outcome.matched)), 0, call.top_k)
           /\ Len(outcome.rows)
                  = (IF call.top_k <= Len(data) - 1 THEN call.top_k ELSE Len(data) - 1)

\* the rows that have the exact genre token q
WithToken(q) ==
    {p \in 0..(Len(data) - 1) :
        \E t \in 1..Len(Split(data[p + 1].Genre, ",")) :
            Lower(Strip(Split(data[p + 1].Genre, ",")[t])) = Lower(q)}

\* C10: when smart_recommend classifies a query as genre, recommend_by_genre
\* does not fail with not-found: it returns a result, non-empty for a
\* positive top_k, that holds every item having that exact genre token
\* (when top_k leaves room for the whole catalog).
C10_GenreModeFinds ==
    (Done("smart_recommend") /\ mode = "genre")
        => /\ outcome.kind = "ok"
           /\ call.top_k >= 1 => outcome.rows # <<>>
           /\ call.top_k >= Len(data) => WithToken(Trimmed) \subseteq RowSet(outcome)

=============================================================================
